---- MODULE Spec2Model ----
(***************************************************************************)
(* Quantum portfolio optimisation (src/main.py): the QUBO formulation of   *)
(* the asset selection, the interpretation of the solver's bitstring into  *)
(* minimum-variance weights and a monetary allocation, the preparation of  *)
(* the statistics from price history and the data acquisition of main().   *)
(*                                                                         *)
(* Numbers are exact.  Returns, covariances and prices are integers (a     *)
(* fixed unit each); the weights, which the code obtains by inverting a    *)
(* covariance submatrix, are rationals <<n, d>> in lowest terms with       *)
(* d > 0.  A division by zero gives, as IEEE arithmetic under numpy does,  *)
(* <<1, 0>> (inf), <<-1, 0>> (-inf) or <<0, 0>> (nan).                      *)
(*                                                                         *)
(* Python indexes from 0 and TLA+ sequences from 1: position i + 1 of a    *)
(* sequence holds the code's element i, while the VALUES kept in           *)
(* selected_indices are the code's 0-based indices.                        *)
(***************************************************************************)
EXTENDS Integers, Sequences, FiniteSets, TLC

VARIABLES
    pc,             \* position of the run
    data,           \* the PortfolioData object (NoneValue before it is built)
    budget,         \* QuantumPortfolioOptimizer.budget
    risk_aversion,  \* QuantumPortfolioOptimizer.risk_aversion
    n_assets,       \* QuantumPortfolioOptimizer.n_assets
    qp,             \* the QuadraticProgram of create_qubo_problem
    qubo,           \* its conversion by QuadraticProgramToQubo
    result_x,       \* result.x restricted to the N asset variables
    solution,       \* what interpret_result returned
    error,          \* the exception that ended the run ("" when none)
    USE_REAL_DATA,  \* main's configuration flag, which main itself clears
    DATA_SOURCE,    \* main's configuration: the source given to the fetcher
    api_key,        \* MarketDataFetcher.api_key (NoneValue or a key)
    ticker_i,       \* get_market_data: position of the loop over the tickers
    data_dict,      \* get_market_data: the tables stored so far
    calls,          \* the provider calls made, in order
    market_data,    \* what get_market_data returned
    all_returns,    \* _load_real_data: the aligned table of daily returns
    last_call,      \* the method of the loaded objects that was called last
    returned        \* what that call returned

optVars == <<budget, risk_aversion, n_assets, qp, qubo, result_x, solution>>

mainVars == <<USE_REAL_DATA, DATA_SOURCE, api_key, ticker_i, data_dict, calls,
              market_data, all_returns>>

callVars == <<last_call, returned>>

vars == <<pc, data, error, optVars, mainVars, callVars>>

\* Python's None (a record, so that it compares with the dictionaries).
NoneValue == [none |-> TRUE]

----------------------------------------------------------------------------
(* Bounds of the model. *)

\* Largest number of assets of a PortfolioData object.
MaxUniverse == 5
\* Off-diagonal covariances range over -MaxCov .. MaxCov.
MaxCov == 2
\* Expected returns range over -MaxReturn .. MaxReturn.
MaxReturn == 2
\* risk_aversion ranges over 0 .. MaxRiskAversion.
MaxRiskAversion == 1
\* Largest number of assets of an object with varied covariances.
MaxCorrelated == 4
\* Number of tickers main() asks the fetcher for.
MaxTickers == 3
\* Price histories hold the dates 1 .. MaxDate.
MaxDate == 3
\* The largest asset universe of the analysed objects.
MaxAnalysed == 2

\* Variances of the first two assets, in units of 0.01 (0.04 and 0.09 are the
\* variances of the specification's worked example).
VarValues == {1, 4, 9}

\* Asset identifiers, by position.
Tickers == <<"PETR4", "VALE3", "ITUB4", "BBDC4", "MGLU3", "WEGE3", "ABEV3",
             "B3SA3">>

\* The right-hand sides of the two cardinality constraints.
min_assets == 2
max_assets == 4

\* budget=10000, the default of QuantumPortfolioOptimizer.__init__.
DefaultBudget == 10000

----------------------------------------------------------------------------
(* Integer and rational arithmetic. *)

Abs(a) == IF a < 0 THEN -a ELSE a

Sign(a) == IF a < 0 THEN -1 ELSE IF a > 0 THEN 1 ELSE 0

RECURSIVE GCD(_, _)
GCD(a, b) == IF b = 0 THEN a ELSE GCD(b, a % b)

\* n / d as a rational in lowest terms; n / 0 is inf, -inf or nan.
Rat(n, d) ==
    IF d = 0 THEN <<Sign(n), 0>>
    ELSE LET g == GCD(Abs(n), Abs(d))
             s == Sign(d)
         IN <<(s * n) \div g, (s * d) \div g>>

RatInt(a) == <<a, 1>>

IsFinite(q) == q[2] # 0

RatAdd(p, q) ==
    IF ~IsFinite(p) \/ ~IsFinite(q)
    THEN IF IsFinite(p) THEN q
         ELSE IF IsFinite(q) THEN p
         ELSE IF p = q THEN p ELSE <<0, 0>>
    ELSE LET g == GCD(p[2], q[2])
         IN Rat(p[1] * (q[2] \div g) + q[1] * (p[2] \div g),
                (p[2] \div g) * q[2])

RatMul(p, q) ==
    IF ~IsFinite(p) \/ ~IsFinite(q)
    THEN <<Sign(p[1]) * Sign(q[1]), 0>>
    ELSE LET g1 == GCD(Abs(p[1]), q[2])
             g2 == GCD(Abs(q[1]), p[2])
             h1 == IF g1 = 0 THEN 1 ELSE g1
             h2 == IF g2 = 0 THEN 1 ELSE g2
         IN Rat((p[1] \div h1) * (q[1] \div h2),
                (p[2] \div h2) * (q[2] \div h1))

RatDiv(p, q) ==
    IF ~IsFinite(p) THEN (IF IsFinite(q)
                          THEN <<p[1] * (IF q[1] < 0 THEN -1 ELSE 1), 0>>
                          ELSE <<0, 0>>)
    ELSE IF ~IsFinite(q) THEN (IF q[1] = 0 THEN <<0, 0>> ELSE <<0, 1>>)
    ELSE IF q[1] = 0 THEN <<Sign(p[1]), 0>>
    ELSE RatMul(p, Rat(q[2], q[1]))

RECURSIVE SumSeq(_)
SumSeq(s) == IF s = <<>> THEN 0 ELSE Head(s) + SumSeq(Tail(s))

RECURSIVE RatSumSeq(_)
RatSumSeq(s) ==
    IF s = <<>> THEN RatInt(0) ELSE RatAdd(Head(s), RatSumSeq(Tail(s)))

----------------------------------------------------------------------------
(* Matrices: sequences of rows. *)

\* M without row i and column j.
Minor(M, i, j) ==
    LET n == Len(M)
        skip(k, a) == IF k < a THEN k ELSE k + 1
    IN [r \in 1..(n - 1) |-> [c \in 1..(n - 1) |-> M[skip(r, i)][skip(c, j)]]]

RECURSIVE Det(_)
Det(M) ==
    IF Len(M) = 0 THEN 1
    ELSE IF Len(M) = 1 THEN M[1][1]
    ELSE LET term(j) == (IF j % 2 = 1 THEN 1 ELSE -1) * M[1][j]
                        * (IF M[1][j] = 0 THEN 0 ELSE Det(Minor(M, 1, j)))
         IN SumSeq([j \in 1..Len(M) |-> term(j)])

Cofactor(M, i, j) ==
    (IF (i + j) % 2 = 0 THEN 1 ELSE -1) * Det(Minor(M, i, j))

\* numpy's M[np.ix_(idx, idx)] for 0-based indices idx.
SubMatrix(M, idx) ==
    [r \in 1..Len(idx) |-> [c \in 1..Len(idx) |-> M[idx[r] + 1][idx[c] + 1]]]

----------------------------------------------------------------------------
(* QuantumPortfolioOptimizer.create_qubo_problem *)

Bitstrings(n) == [1..n -> {0, 1}]

Count(x) == SumSeq(x)

UpperPairs(n) == {p \in (1..n) \X (1..n) : p[1] <= p[2]}

\* The QuadraticProgram: binary variables x_0 .. x_{n-1}; the linear
\* coefficient of x_i is -expected_returns[i]; the quadratic dictionary holds
\* a key (x_i, x_j) only for i <= j, with risk_aversion * cov_matrix[i, j];
\* the two linear constraints sum(x) >= 2 and sum(x) <= 4.
create_qubo_problem(d, ra, n) ==
    [constant |-> 0,
     linear |-> [i \in 1..n |-> -d.expected_returns[i]],
     quadratic |-> [p \in UpperPairs(n) |-> ra * d.cov_matrix[p[1]][p[2]]],
     constraints |->
        << [name |-> "min_assets", sense |-> ">=", rhs |-> min_assets,
            linear |-> [i \in 1..n |-> 1]],
           [name |-> "max_assets", sense |-> "<=", rhs |-> max_assets,
            linear |-> [i \in 1..n |-> 1]] >>]

RECURSIVE SumOver(_, _)
\* The sum of f[p] over p in S.
SumOver(f, S) ==
    IF S = {} THEN 0
    ELSE LET p == CHOOSE q \in S : TRUE IN f[p] + SumOver(f, S \ {p})

\* The value of a program's objective at the bitstring x: its constant, the
\* linear terms, and each entry of the quadratic dictionary contributing
\* coefficient * x_i * x_j once.
ObjectiveValue(q, x) ==
    q.constant
    + SumSeq([i \in 1..Len(x) |-> q.linear[i] * x[i]])
    + SumSeq([i \in 1..Len(x) |->
         IF x[i] = 0 THEN 0
         ELSE SumSeq([j \in 1..Len(x) |->
                 IF x[j] = 0 \/ <<i, j>> \notin DOMAIN q.quadratic THEN 0
                 ELSE q.quadratic[<<i, j>>] * x[i] * x[j]])])

----------------------------------------------------------------------------
(* QuadraticProgramToQubo().convert(qp), as optimize_quantum calls it *)

\* The width of the range of a linear or quadratic expression over binary
\* variables: upper bound minus lower bound of the sum of its terms.
BoundsWidth(coeffs) ==
    LET up == SumOver([p \in DOMAIN coeffs |->
                          IF coeffs[p] > 0 THEN coeffs[p] ELSE 0], DOMAIN coeffs)
        lo == SumOver([p \in DOMAIN coeffs |->
                          IF coeffs[p] < 0 THEN coeffs[p] ELSE 0], DOMAIN coeffs)
    IN up - lo

\* A mutant: a penalty that ignores the range of the linear (return) terms.
auto_define_penalty_no_linear(q) == 1 + BoundsWidth(q.quadratic)

\* The penalty factor the converter chooses when none is given:
\* 1 + (range of the linear part) + (range of the quadratic part).
auto_define_penalty(q) ==
    1 + BoundsWidth(q.linear) + BoundsWidth(q.quadratic)

\* LinearInequalityToPenalty, the converter's first step, takes a
\* constraint over at least 2 binary variables with unit coefficients of
\* the form sum(x) <= 1 or sum(x) >= n - 1.  (Its forms x - y <= 0 and
\* x - y >= 0 need rhs 0 and coefficients of both signs, which the
\* constraints of create_qubo_problem never have.)
is_matched_constraint(c) ==
    /\ Len(c.linear) >= 2
    /\ ~(Len(c.linear) = 2 /\ c.rhs = 0)
    /\ \A i \in 1..Len(c.linear) : c.linear[i] = 1
    /\ \/ c.sense = "<=" /\ c.rhs = 1
       \/ c.sense = ">=" /\ c.rhs = Len(c.linear) - 1

\* The penalty polynomial of a matched constraint over n variables:
\* sum(x) >= n - 1 becomes sum_{i<j} (1 - x_i)(1 - x_j), that is
\* n(n-1)/2 + (1 - n) sum_i x_i + sum_{i<j} x_i x_j; sum(x) <= 1 becomes
\* sum_{i<j} x_i x_j.
conversion_table(c) ==
    LET n == Len(c.linear)
    IN IF c.sense = ">=" /\ c.rhs = n - 1
       THEN [offset |-> (n * (n - 1)) \div 2, linear |-> 1 - n, quadratic |-> 1]
       ELSE [offset |-> 0, linear |-> 0, quadratic |-> 1]

\* LinearInequalityToPenalty.convert: every matched constraint is removed
\* and its polynomial, times the penalty computed on the given objective,
\* is added to the objective; the other constraints are kept.
linear_inequality_to_penalty(q) ==
    LET penalty == auto_define_penalty(q)
        matched == SelectSeq(q.constraints, is_matched_constraint)
        kept == SelectSeq(q.constraints, LAMBDA c : ~is_matched_constraint(c))
        tables == [k \in 1..Len(matched) |-> conversion_table(matched[k])]
        n == Len(q.linear)
    IN [constant |-> q.constant
                     + penalty * SumSeq([k \in 1..Len(tables) |-> tables[k].offset]),
        linear |-> [i \in 1..n |->
                      q.linear[i]
                      + penalty * SumSeq([k \in 1..Len(tables) |-> tables[k].linear])],
        quadratic |-> [p \in UpperPairs(n) |->
                         (IF p \in DOMAIN q.quadratic THEN q.quadratic[p] ELSE 0)
                         + (IF p[1] < p[2]
                            THEN penalty * SumSeq([k \in 1..Len(tables) |->
                                                      tables[k].quadratic])
                            ELSE 0)],
        constraints |-> kept]

\* The integer slack of an inequality: sum(x) - s = rhs with
\* 0 <= s <= (largest lhs) - rhs for ">=", sum(x) + s = rhs with
\* 0 <= s <= rhs - (smallest lhs) for "<=".
SlackUpper(c) ==
    IF c.sense = ">=" THEN SumSeq(c.linear) - c.rhs ELSE c.rhs - 0

\* QuadraticProgramToQubo.convert: LinearInequalityToPenalty, then
\* InequalityToEquality (an integer slack for every inequality left), then
\* LinearEqualityToPenalty with the penalty computed on the objective it is
\* given.
convert(q) ==
    LET u == linear_inequality_to_penalty(q)
    IN [constant |-> u.constant,
        linear |-> u.linear,
        quadratic |-> u.quadratic,
        constraints |-> u.constraints,
        slack_upper |-> [k \in 1..Len(u.constraints) |-> SlackUpper(u.constraints[k])],
        penalty |-> auto_define_penalty(u)]

\* The values the slack variables can take, one for each constraint left.
SlackAssignments(u) ==
    IF Len(u.constraints) = 2
    THEN {<<s1, s2>> : s1 \in 0..u.slack_upper[1], s2 \in 0..u.slack_upper[2]}
    ELSE IF Len(u.constraints) = 1
    THEN {<<s1>> : s1 \in 0..u.slack_upper[1]}
    ELSE {<<>>}

\* The residual of the equality that replaces constraint k.
Residual(u, k, x, s) ==
    LET c == u.constraints[k]
        lhs == SumSeq([i \in 1..Len(x) |-> c.linear[i] * x[i]])
    IN IF c.sense = ">=" THEN lhs - s[k] - c.rhs ELSE lhs + s[k] - c.rhs

\* The penalty terms: penalty * (residual squared), summed over the
\* constraints.
PenaltyValue(u, x, s) ==
    u.penalty * SumSeq([k \in 1..Len(u.constraints) |->
                           Residual(u, k, x, s) * Residual(u, k, x, s)])

\* The unconstrained objective at asset bits x and slack values s.
QuboValue(u, x, s) == ObjectiveValue(u, x) + PenaltyValue(u, x, s)

\* The least unconstrained value a bitstring x can take over the slacks: the
\* objective plus the least penalty.
MinimizedValue(u, x) ==
    LET pens == {PenaltyValue(u, x, s) : s \in SlackAssignments(u)}
    IN ObjectiveValue(u, x) + (CHOOSE v \in pens : \A w \in pens : v <= w)

----------------------------------------------------------------------------
(* QuantumPortfolioOptimizer.calculate_weights and interpret_result *)

Returned(v) == [raised |-> "", value |-> v]
Raised(e) == [raised |-> e, value |-> NoneValue]

\* np.linalg.inv: the inverse as adjugate / determinant; LinAlgError
\* ("Singular matrix") when the factorisation meets a zero pivot, which in
\* exact arithmetic is a zero determinant.
inv(M) ==
    LET det == Det(M)
    IN IF det = 0 THEN Raised("LinAlgError")
       ELSE Returned([i \in 1..Len(M) |->
                        [j \in 1..Len(M) |-> Rat(Cofactor(M, j, i), det)]])

\* np.dot(A, v) for a matrix and a vector, np.dot(u, v) for two vectors.
MatVec(A, v) ==
    [i \in 1..Len(A) |-> RatSumSeq([j \in 1..Len(v) |-> RatMul(A[i][j], v[j])])]

Dot(u, v) == RatSumSeq([j \in 1..Len(v) |-> RatMul(u[j], v[j])])

\* A mutant: the inverse-covariance row sums are returned unnormalised.
calculate_weights_unnormalised(d, selected_indices) ==
    LET cov_subset == SubMatrix(d.cov_matrix, selected_indices)
        inv_cov == inv(cov_subset)
        ones == [i \in 1..Len(selected_indices) |-> RatInt(1)]
    IN IF inv_cov.raised # "" THEN inv_cov
       ELSE Returned(MatVec(inv_cov.value, ones))

\* A mutant: weights proportional to the variances instead of their inverses.
calculate_weights_by_variance(d, selected_indices) ==
    LET cov_subset == SubMatrix(d.cov_matrix, selected_indices)
        inv_cov == inv(cov_subset)
        n == Len(selected_indices)
        diag == [i \in 1..n |-> RatInt(cov_subset[i][i])]
    IN IF inv_cov.raised # "" THEN inv_cov
       ELSE Returned([i \in 1..n |-> RatDiv(diag[i], RatSumSeq(diag))])

\* weights = inv(cov_subset) . 1 / (1 . inv(cov_subset) . 1); the subset of
\* the expected returns the code also takes is not used.
calculate_weights(d, selected_indices) ==
    LET n == Len(selected_indices)
        returns_subset == [i \in 1..n |-> d.expected_returns[selected_indices[i] + 1]]
        cov_subset == SubMatrix(d.cov_matrix, selected_indices)
        inv_cov == inv(cov_subset)
        ones == [i \in 1..n |-> RatInt(1)]
    IN IF inv_cov.raised # "" THEN inv_cov
       ELSE LET num == MatVec(inv_cov.value, ones)
                den == Dot(ones, num)
            IN Returned([i \in 1..n |-> RatDiv(num[i], den)])

RECURSIVE SelectFrom(_, _)
\* The 0-based indices i >= from - 1 with x[i] > 0.5, ascending.
SelectFrom(x, from) ==
    IF from > Len(x) THEN <<>>
    ELSE (IF 2 * x[from] > 1 THEN <<from - 1>> ELSE <<>>)
         \o SelectFrom(x, from + 1)

Selected(x, n) == SelectFrom(SubSeq(x, 1, n), 1)

\* A mutant: the allocation is divided by the asset's price (share counts).
interpret_result_by_price(d, n, b, x) ==
    LET selected == Selected(x, n)
        weights == calculate_weights(d, selected)
    IN IF Len(selected) = 0 THEN Returned(NoneValue)
       ELSE IF weights.raised # "" THEN weights
       ELSE Returned(
              [selected_indices |-> selected,
               selected_assets |-> [k \in 1..Len(selected) |-> d.assets[selected[k] + 1]],
               weights |-> weights.value,
               allocation |-> [k \in 1..Len(selected) |->
                   RatDiv(RatMul(weights.value[k], RatInt(b)),
                          RatInt(d.prices[selected[k] + 1]))]])

\* interpret_result: None (after a printed warning) for an empty selection,
\* otherwise the dictionary of the selection, its weights and allocation; an
\* exception of calculate_weights is not caught.
interpret_result(d, n, b, x) ==
    LET selected == Selected(x, n)
        weights == calculate_weights(d, selected)
    IN IF Len(selected) = 0 THEN Returned(NoneValue)
       ELSE IF weights.raised # "" THEN weights
       ELSE Returned(
              [selected_indices |-> selected,
               selected_assets |-> [k \in 1..Len(selected) |-> d.assets[selected[k] + 1]],
               weights |-> weights.value,
               allocation |-> [k \in 1..Len(selected) |->
                   RatMul(weights.value[k], RatInt(b))]])

----------------------------------------------------------------------------
(* The PortfolioData objects the optimiser is run on. *)

\* A covariance matrix of n assets: variances v1, v2 of the first two assets
\* and 1 of the others, covariance c12 between assets 1 and 2 and c23 between
\* assets 2 and 3, no other correlation.
CovMatrix(n, v1, v2, c12, c23) ==
    [i \in 1..n |-> [j \in 1..n |->
        IF i = j THEN (IF i = 1 THEN v1 ELSE IF i = 2 THEN v2 ELSE 1)
        ELSE IF {i, j} = {1, 2} THEN c12
        ELSE IF {i, j} = {2, 3} THEN c23
        ELSE 0]]

\* A covariance matrix is positive semidefinite.  In the matrices above all
\* correlation is among the first three assets and the others have variance
\* 1, so the matrix is positive semidefinite exactly when every principal
\* minor of its block of the first three assets is non-negative.
PrincipalMinorsOK(M) ==
    \A S \in SUBSET (1..(IF Len(M) < 3 THEN Len(M) ELSE 3)) :
        LET idx == SelectFrom([i \in 1..Len(M) |-> IF i \in S THEN 1 ELSE 0], 1)
        IN Det(SubMatrix(M, idx)) >= 0

PortfolioDataObject(n, r, M) ==
    [assets |-> SubSeq(Tickers, 1, n),
     expected_returns |-> r,
     cov_matrix |-> M,
     prices |-> [i \in 1..n |-> i + 1],
     data_source |-> "simulado"]

\* Returns that alternate between r1 (assets 1, 3, ..) and r2 (assets 2, 4, ..).
ReturnVector(n, r1, r2) == [i \in 1..n |-> IF i % 2 = 1 THEN r1 ELSE r2]

\* Objects with varied returns and unit variances.
ReturnDataSets ==
    {PortfolioDataObject(n, ReturnVector(n, r1, r2), CovMatrix(n, 1, 1, c12, 0)) :
        n \in 2..MaxUniverse, r1 \in -MaxReturn..MaxReturn,
        r2 \in {-MaxReturn, 0, MaxReturn},
        c12 \in {c \in -MaxCov..MaxCov : PrincipalMinorsOK(CovMatrix(2, 1, 1, c, 0))}}

CovParams ==
    {p \in VarValues \X VarValues \X (-MaxCov..MaxCov) \X (-MaxCov..MaxCov) :
        PrincipalMinorsOK(CovMatrix(3, p[1], p[2], p[3], p[4]))}

\* Objects with varied covariances.
CovarianceDataSets ==
    {PortfolioDataObject(n, ReturnVector(n, r1, 0),
                         CovMatrix(n, p[1], p[2], p[3], IF n >= 3 THEN p[4] ELSE 0)) :
        n \in 2..MaxCorrelated, r1 \in {-MaxReturn, MaxReturn}, p \in CovParams}

----------------------------------------------------------------------------
(* The optimiser's run: __init__, optimize_quantum, interpret_result. *)

\* QuantumPortfolioOptimizer(data, budget, risk_aversion) on an object with
\* varied returns.
Init ==
    /\ pc = "optimizer"
    /\ data \in ReturnDataSets
    /\ budget = DefaultBudget
    /\ risk_aversion \in 0..MaxRiskAversion
    /\ n_assets = Len(data.assets)
    /\ qp = NoneValue
    /\ qubo = NoneValue
    /\ result_x = NoneValue
    /\ solution = NoneValue
    /\ error = ""
    /\ USE_REAL_DATA = FALSE
    /\ DATA_SOURCE = "auto"
    /\ api_key = NoneValue
    /\ ticker_i = 0
    /\ data_dict = <<>>
    /\ calls = <<>>
    /\ market_data = NoneValue
    /\ all_returns = NoneValue
    /\ last_call = ""
    /\ returned = NoneValue

\* The same on an object with varied covariances.
InitWeights ==
    /\ pc = "optimizer"
    /\ data \in CovarianceDataSets
    /\ budget = DefaultBudget
    /\ risk_aversion = MaxRiskAversion
    /\ n_assets = Len(data.assets)
    /\ qp = NoneValue
    /\ qubo = NoneValue
    /\ result_x = NoneValue
    /\ solution = NoneValue
    /\ error = ""
    /\ USE_REAL_DATA = FALSE
    /\ DATA_SOURCE = "auto"
    /\ api_key = NoneValue
    /\ ticker_i = 0
    /\ data_dict = <<>>
    /\ calls = <<>>
    /\ market_data = NoneValue
    /\ all_returns = NoneValue
    /\ last_call = ""
    /\ returned = NoneValue

\* optimize_quantum: builds the program, converts it, and lets QAOA solve
\* the converted problem.  QAOA is a sampling heuristic: the bitstring it
\* returns may be any assignment of the binary variables.
optimize_quantum ==
    /\ pc = "optimizer"
    /\ qp' = create_qubo_problem(data, risk_aversion, n_assets)
    /\ qubo' = convert(qp')
    /\ \E x \in Bitstrings(n_assets) : result_x' = x
    /\ pc' = "solved"
    /\ UNCHANGED <<data, budget, risk_aversion, n_assets, solution, error, mainVars, callVars>>

\* solution = optimizer.interpret_result(result), as main() calls it.
InterpretResult ==
    /\ pc = "solved"
    /\ LET r == interpret_result(data, n_assets, budget, result_x)
       IN IF r.raised # ""
          THEN /\ error' = r.raised
               /\ pc' = "crashed"
               /\ UNCHANGED solution
          ELSE /\ solution' = r.value
               /\ pc' = "interpreted"
               /\ UNCHANGED error
    /\ UNCHANGED <<data, budget, risk_aversion, n_assets, qp, qubo, result_x, mainVars, callVars>>

Next == optimize_quantum \/ InterpretResult

Spec == Init /\ [][Next]_vars

SpecWeights == InitWeights /\ [][Next]_vars

----------------------------------------------------------------------------
(* Price histories: the DataFrames the fetchers return. *)

\* pd.DataFrame({'date': ..., 'close': ...}): the rows in the order the
\* provider gave them, on a RangeIndex: the row at position k gets the index
\* label k - 1, and keeps it through any later sort or dropna.  A close is a
\* float: <<c, 1>>, or <<0, 0>> (nan) where the provider sent null.
DataFrame(rows) ==
    [rows |-> [k \in 1..Len(rows) |->
                  [label |-> k - 1, date |-> rows[k].date, close |-> rows[k].close]]]

\* df.dropna(): the rows without a nan, with their labels.
dropna(df) == [rows |-> SelectSeq(df.rows, LAMBDA r : r.close # <<0, 0>>)]

ClosePrice(path, d) == IF path = "rising" THEN 10 + d ELSE 20 - 2 * d

\* The frame of a provider's answer for the given dates, with a null close
\* at the dates of nulls, after the dropna of fetch_yahoo_finance (which
\* changes nothing when no close is null).
MakeTable(dates, path, nulls) ==
    dropna(DataFrame([k \in 1..Len(dates) |->
                         [date |-> dates[k],
                          close |-> IF dates[k] \in nulls THEN <<0, 0>>
                                    ELSE RatInt(ClosePrice(path, dates[k]))]]))

RECURSIVE Ascending(_)
\* The elements of a set of numbers, ascending.
Ascending(S) ==
    IF S = {} THEN <<>>
    ELSE LET m == CHOOSE a \in S : \A b \in S : a <= b
         IN <<m>> \o Ascending(S \ {m})

Reverse(s) == [k \in 1..Len(s) |-> s[Len(s) + 1 - k]]

\* Histories over any dates of 1 .. MaxDate, oldest or newest row first, with
\* at most one null close.
Tables ==
    UNION {{MakeTable(ds, path, nulls) :
               ds \in {Ascending(S), Reverse(Ascending(S))},
               path \in {"rising", "falling"},
               nulls \in {{}} \cup {{d} : d \in S}} :
           S \in SUBSET (1..MaxDate)}

----------------------------------------------------------------------------
(* PortfolioData: __init__, _load_simulated_data, _load_real_data *)

\* The simulated statistics: returns in units of 0.1 %, covariances in units
\* of 0.0001, prices in cents.
_load_simulated_data ==
    [assets |-> <<"PETR4", "VALE3", "ITUB4", "BBDC4", "MGLU3">>,
     expected_returns |-> <<152, 185, 123, 118, 85>>,
     cov_matrix |-> << <<625, 312, 156, 125, 94>>,
                       <<312, 900, 200, 180, 120>>,
                       <<156, 200, 400, 300, 100>>,
                       <<125, 180, 300, 361, 90>>,
                       <<94, 120, 100, 90, 484>> >>,
     prices |-> <<2850, 6530, 2480, 1420, 315>>,
     data_source |-> "simulado"]

RECURSIVE sort_values(_)
\* df.sort_values('date'): the rows ascending by date, each with its label.
sort_values(rows) ==
    IF rows = {} THEN <<>>
    ELSE LET m == CHOOSE r \in rows : \A q \in rows : r.date <= q.date
         IN <<m>> \o sort_values(rows \ {m})

\* df['close'].pct_change() after the sort, and .dropna(): the first sorted
\* row has no return; every other row keeps its label and gets
\* close / previous close - 1.
pct_change(df) ==
    LET sorted == sort_values({df.rows[k] : k \in 1..Len(df.rows)})
    IN [k \in 1..(Len(sorted) - 1) |->
           [label |-> sorted[k + 1].label,
            date |-> sorted[k + 1].date,
            returns |-> RatAdd(RatDiv(sorted[k + 1].close, sorted[k].close),
                               RatInt(-1))]]

SeriesLabels(series) == {series[k].label : k \in 1..Len(series)}

SeriesAt(series, l) == series[CHOOSE k \in 1..Len(series) : series[k].label = l]

\* pd.DataFrame(returns_dict).dropna(): the series are aligned on their
\* index labels, and a label that some series lacks is dropped.  A row of
\* the result, by label, holds for each asset its return at that label and
\* the date that return belongs to.
aligned_returns(items) ==
    LET returns_dict == [k \in 1..Len(items) |-> pct_change(items[k].df)]
        common == {l \in UNION {SeriesLabels(returns_dict[k]) : k \in 1..Len(items)} :
                      \A k \in 1..Len(items) : l \in SeriesLabels(returns_dict[k])}
    IN [l \in common |->
           [k \in 1..Len(items) |->
               [date |-> SeriesAt(returns_dict[k], l).date,
                returns |-> SeriesAt(returns_dict[k], l).returns]]]

\* _load_real_data up to its first report of the period: the labels of
\* all_returns are integers, so all_returns.index[0].strftime(...) raises
\* AttributeError (IndexError when the table is empty) before any statistic
\* is computed.
_load_real_data(items) ==
    LET table == aligned_returns(items)
    IN [assets |-> [k \in 1..Len(items) |-> items[k].ticker],
        all_returns |-> table,
        raised |-> IF DOMAIN table = {} THEN "IndexError" ELSE "AttributeError"]

----------------------------------------------------------------------------
(* MarketDataFetcher.get_market_data and main() up to the loaded data *)

MainTickers == <<"PETR4", "VALE3", "ITUB4", "BBDC4", "WEGE3">>

TICKERS == SubSeq(MainTickers, 1, MaxTickers)

FetchTables ==
    {MakeTable(Ascending(1..MaxDate), "rising", {}),
     MakeTable(Ascending(2..MaxDate), "falling", {})}

\* Answers of Yahoo with a null close: none left after the dropna, or a
\* frame whose labels have a gap.
YahooTablesWithNulls ==
    {MakeTable(<<1>>, "rising", {1}),
     MakeTable(Ascending(1..MaxDate), "rising", {2})}

\* What one call of a provider can return: None after any failure, or a
\* table.  Only fetch_yahoo_finance can return an empty table (after its
\* dropna); fetch_alpha_vantage returns None at once without a key.
ProviderResults(provider, key) ==
    IF provider = "brapi" THEN {NoneValue} \cup FetchTables
    ELSE IF provider = "yahoo"
    THEN {NoneValue} \cup YahooTablesWithNulls \cup FetchTables
    ELSE IF key = NoneValue THEN {NoneValue}
    ELSE {NoneValue} \cup FetchTables

\* The body of the loop for one ticker, given what the providers would
\* return.  With source 'auto' the three calls are chained with `or`: the
\* truth value of a DataFrame in a non-final operand raises ValueError.
fetch_by_source(source, b, y, a) ==
    IF source = "auto"
    THEN IF b # NoneValue
         THEN [raised |-> "ValueError", df |-> NoneValue, called |-> <<"brapi">>]
         ELSE IF y # NoneValue
         THEN [raised |-> "ValueError", df |-> NoneValue,
               called |-> <<"brapi", "yahoo">>]
         ELSE [raised |-> "", df |-> a,
               called |-> <<"brapi", "yahoo", "alpha_vantage">>]
    ELSE IF source = "yahoo"
    THEN [raised |-> "", df |-> y, called |-> <<"yahoo">>]
    ELSE IF source = "brapi"
    THEN [raised |-> "", df |-> b, called |-> <<"brapi">>]
    ELSE [raised |-> "", df |-> a, called |-> <<"alpha_vantage">>]

\* main() as it starts, with its configuration block.
InitMain ==
    /\ pc = "main"
    /\ USE_REAL_DATA \in BOOLEAN
    /\ DATA_SOURCE \in {"auto", "yahoo", "brapi", "alpha_vantage"}
    /\ api_key \in {NoneValue, [key |-> "demo"]}
    /\ ticker_i = 0
    /\ data_dict = <<>>
    /\ calls = <<>>
    /\ market_data = NoneValue
    /\ all_returns = NoneValue
    /\ last_call = ""
    /\ returned = NoneValue
    /\ data = NoneValue
    /\ error = ""
    /\ budget = NoneValue
    /\ risk_aversion = NoneValue
    /\ n_assets = NoneValue
    /\ qp = NoneValue
    /\ qubo = NoneValue
    /\ result_x = NoneValue
    /\ solution = NoneValue

\* main, lines 595-599: the fetcher is built and asked when USE_REAL_DATA.
StartMain ==
    /\ pc = "main"
    /\ IF USE_REAL_DATA
       THEN pc' = "fetching" /\ ticker_i' = 1
       ELSE pc' = "load" /\ UNCHANGED ticker_i
    /\ UNCHANGED <<data, error, optVars, callVars, USE_REAL_DATA, DATA_SOURCE, api_key,
                   data_dict, calls, market_data, all_returns>>

\* get_market_data: one pass of the loop over the tickers.
FetchTicker ==
    /\ pc = "fetching"
    /\ ticker_i <= Len(TICKERS)
    /\ \E b \in ProviderResults("brapi", api_key),
          y \in ProviderResults("yahoo", api_key),
          a \in ProviderResults("alpha_vantage", api_key) :
          LET r == fetch_by_source(DATA_SOURCE, b, y, a)
              made == [k \in 1..Len(r.called) |-> <<TICKERS[ticker_i], r.called[k]>>]
          IN /\ calls' = calls \o made
             /\ IF r.raised # ""
                THEN /\ error' = r.raised
                     /\ pc' = "crashed"
                     /\ UNCHANGED <<data_dict, ticker_i>>
                ELSE /\ data_dict' =
                          IF r.df # NoneValue /\ Len(r.df.rows) > 0
                          THEN Append(data_dict,
                                      [ticker |-> TICKERS[ticker_i], df |-> r.df])
                          ELSE data_dict
                     /\ ticker_i' = ticker_i + 1
                     /\ UNCHANGED <<error, pc>>
    /\ UNCHANGED <<data, optVars, callVars, USE_REAL_DATA, DATA_SOURCE, api_key,
                   market_data, all_returns>>

\* get_market_data returns (None when no ticker got data), and main, lines
\* 601-603, falls back to the simulated mode on fewer than 2 assets.
FinishFetch ==
    /\ pc = "fetching"
    /\ ticker_i > Len(TICKERS)
    /\ market_data' = IF Len(data_dict) = 0 THEN NoneValue
                      ELSE [items |-> data_dict]
    /\ USE_REAL_DATA' = IF Len(data_dict) < 2 THEN FALSE ELSE USE_REAL_DATA
    /\ pc' = "load"
    /\ UNCHANGED <<data, error, optVars, callVars, DATA_SOURCE, api_key, ticker_i,
                   data_dict, calls, all_returns>>

\* data = PortfolioData(market_data if USE_REAL_DATA else None,
\*                      use_simulated=not USE_REAL_DATA)
LoadData ==
    /\ pc = "load"
    /\ LET given == IF USE_REAL_DATA THEN market_data ELSE NoneValue
           use_simulated == ~USE_REAL_DATA
       IN IF use_simulated \/ given = NoneValue
          THEN /\ data' = _load_simulated_data
               /\ pc' = "loaded"
               /\ UNCHANGED <<error, all_returns>>
          ELSE LET r == _load_real_data(given.items)
               IN /\ all_returns' = [rows |-> r.all_returns]
                  /\ error' = r.raised
                  /\ pc' = "crashed"
                  /\ UNCHANGED data
    /\ UNCHANGED <<optVars, callVars, USE_REAL_DATA, DATA_SOURCE, api_key, ticker_i,
                   data_dict, calls, market_data>>

NextMain == StartMain \/ FetchTicker \/ FinishFetch \/ LoadData

SpecMain == InitMain /\ [][NextMain]_vars

\* PortfolioData(market_data) on the histories of two assets.
InitLoad ==
    /\ pc = "load"
    /\ USE_REAL_DATA = TRUE
    /\ DATA_SOURCE = "yahoo"
    /\ api_key = NoneValue
    /\ ticker_i = Len(TICKERS) + 1
    /\ \E ta, tb \in {t \in Tables : Len(t.rows) > 0} :
          data_dict = << [ticker |-> MainTickers[1], df |-> ta],
                         [ticker |-> MainTickers[2], df |-> tb] >>
    /\ calls = <<>>
    /\ market_data = [items |-> data_dict]
    /\ all_returns = NoneValue
    /\ last_call = ""
    /\ returned = NoneValue
    /\ data = NoneValue
    /\ error = ""
    /\ budget = NoneValue
    /\ risk_aversion = NoneValue
    /\ n_assets = NoneValue
    /\ qp = NoneValue
    /\ qubo = NoneValue
    /\ result_x = NoneValue
    /\ solution = NoneValue

SpecLoad == InitLoad /\ [][LoadData]_vars

----------------------------------------------------------------------------
(* PortfolioData.get_risk, get_return and PortfolioAnalyzer *)

RatVector(v) == [i \in 1..Len(v) |-> RatInt(v[i])]

RatMatrix(M) == [i \in 1..Len(M) |-> RatVector(M[i])]

\* np.sqrt of a float, kept as the square it is the non-negative root of:
\* the square <<0, 0>> stands for nan (the root of a negative number or of
\* nan), <<1, 0>> for inf.
sqrt(q) == [square |-> IF q[1] < 0 THEN <<0, 0>> ELSE q]

\* root * 100
Times100(root) == [square |-> RatMul(root.square, RatInt(10000))]

\* The float q / root, as its sign and its square.  Dividing by a zero root
\* raises nothing: the quotient is inf, -inf or (for 0 / 0) nan.
DivideByRoot(q, root) ==
    LET sq == RatDiv(RatMul(q, q), root.square)
    IN [sign |-> IF sq[1] = 0 THEN 0 ELSE Sign(q[1]), square |-> sq]

\* The outcome of a method: the object after the call and what it returned.
\* get_risk: sqrt(w . cov . w) over all the assets.
get_risk(d, weights) ==
    [self |-> d,
     value |-> sqrt(Dot(weights, MatVec(RatMatrix(d.cov_matrix), weights)))]

\* get_return: w . expected_returns over all the assets.
get_return(d, weights) ==
    [self |-> d, value |-> Dot(weights, RatVector(d.expected_returns))]

\* print_summary: the metrics it prints for the solution's weights; the
\* division by portfolio_risk * 100 is not guarded.
print_summary(d, sol) ==
    LET idx == sol.selected_indices
        weights == sol.weights
        portfolio_return ==
            Dot(weights, [k \in 1..Len(idx) |-> RatInt(d.expected_returns[idx[k] + 1])])
        portfolio_risk ==
            sqrt(Dot(weights, MatVec(RatMatrix(SubMatrix(d.cov_matrix, idx)), weights)))
        sharpe_ratio == DivideByRoot(portfolio_return, Times100(portfolio_risk))
    IN [self |-> d,
        value |-> [portfolio_return |-> portfolio_return,
                   portfolio_risk |-> portfolio_risk,
                   sharpe_ratio |-> sharpe_ratio]]

\* A mutant: before the random portfolio is drawn the expected returns of
\* the object are centred in place on the first asset's return.
plot_risk_return_in_place(d, sol, random) ==
    LET total == RatSumSeq(random)
        weights == [i \in 1..Len(random) |-> RatDiv(random[i], total)]
        centred == [i \in 1..Len(d.expected_returns) |->
                       d.expected_returns[i] - d.expected_returns[1]]
    IN [self |-> [d EXCEPT !.expected_returns = centred],
        value |-> [ret |-> Dot(weights, RatVector(centred)),
                   risk |-> sqrt(Dot(weights, MatVec(RatMatrix(d.cov_matrix), weights)))]]

\* plot_risk_return for one of its random portfolios: the random weights
\* (an array of their own) are normalised in place, and the return and risk
\* of the result are plotted.
plot_risk_return(d, sol, random) ==
    LET total == RatSumSeq(random)
        weights == [i \in 1..Len(random) |-> RatDiv(random[i], total)]
    IN [self |-> d,
        value |-> [ret |-> Dot(weights, RatVector(d.expected_returns)),
                   risk |-> sqrt(Dot(weights, MatVec(RatMatrix(d.cov_matrix), weights)))]]

----------------------------------------------------------------------------
(* The loaded objects under any sequence of calls. *)

\* Variances that include a riskless asset.
RiskValues == {0, 1}

AnalysedParams ==
    {p \in RiskValues \X (-MaxCov..MaxCov) :
        PrincipalMinorsOK(CovMatrix(2, p[1], 1, p[2], 0))}

AnalysedDataSets ==
    {PortfolioDataObject(n, ReturnVector(n, r1, 1), CovMatrix(n, p[1], 1, p[2], 0)) :
        n \in 2..MaxAnalysed, r1 \in {-MaxReturn, 0}, p \in AnalysedParams}

\* Weight vectors of k assets on a grid of halves that sum to 1.
WeightGrid(k) ==
    {w \in [1..k -> {<<0, 1>>, <<1, 2>>, <<1, 1>>}] : RatSumSeq(w) = <<1, 1>>}

\* np.random.random(k): k floats of [0, 1), here quarters and halves.
RandomWeights(k) == [1..k -> {<<1, 4>>, <<1, 2>>}]

\* The non-empty selections of at most 2 of n assets, ascending, 0-based.
Selections(n) ==
    {Selected(x, n) : x \in {b \in Bitstrings(n) : Count(b) \in 1..2}}

\* The solution dictionaries a PortfolioAnalyzer can be built on.
GivenSolutions(d, b) ==
    UNION {{[selected_indices |-> idx,
             selected_assets |-> [k \in 1..Len(idx) |-> d.assets[idx[k] + 1]],
             weights |-> w,
             allocation |-> [k \in 1..Len(idx) |-> RatMul(w[k], RatInt(b))]] :
               w \in WeightGrid(Len(idx))} :
           idx \in Selections(Len(d.assets))}

\* The dictionaries interpret_result returns on the object.
InterpretedSolutions(d, b) ==
    {r.value : r \in {q \in {interpret_result(d, Len(d.assets), b, x) :
                                 x \in Bitstrings(Len(d.assets))} :
                         q.raised = "" /\ q.value # NoneValue}}

\* The objects of a run after loading: the data, the optimizer built on it
\* and an analyzer built on a solution.
InitPipeline ==
    /\ pc = "pipeline"
    /\ data \in AnalysedDataSets
    /\ budget = DefaultBudget
    /\ risk_aversion = MaxRiskAversion
    /\ n_assets = Len(data.assets)
    /\ solution \in GivenSolutions(data, budget) \cup InterpretedSolutions(data, budget)
    /\ qp = NoneValue
    /\ qubo = NoneValue
    /\ result_x = NoneValue
    /\ error = ""
    /\ USE_REAL_DATA = FALSE
    /\ DATA_SOURCE = "auto"
    /\ api_key = NoneValue
    /\ ticker_i = 0
    /\ data_dict = <<>>
    /\ calls = <<>>
    /\ market_data = NoneValue
    /\ all_returns = NoneValue
    /\ last_call = ""
    /\ returned = NoneValue

\* optimizer.create_qubo_problem()
CreateQuboProblem ==
    /\ pc = "pipeline"
    /\ last_call' = "create_qubo_problem"
    /\ returned' = create_qubo_problem(data, risk_aversion, n_assets)
    /\ UNCHANGED <<pc, data, error, optVars, mainVars>>

\* optimizer.interpret_result(result) on any bitstring; the analyzer keeps
\* the solution it was built on.
CallInterpretResult ==
    /\ pc = "pipeline"
    /\ \E x \in Bitstrings(n_assets) :
          /\ last_call' = "interpret_result"
          /\ returned' = interpret_result(data, n_assets, budget, x)
    /\ UNCHANGED <<pc, data, error, optVars, mainVars>>

\* optimizer.calculate_weights(selected_indices)
CallCalculateWeights ==
    /\ pc = "pipeline"
    /\ \E idx \in Selections(n_assets) :
          /\ last_call' = "calculate_weights"
          /\ returned' = calculate_weights(data, idx)
    /\ UNCHANGED <<pc, data, error, optVars, mainVars>>

\* data.get_risk(weights)
GetRisk ==
    /\ pc = "pipeline"
    /\ \E w \in WeightGrid(n_assets) :
          LET r == get_risk(data, w)
          IN /\ data' = r.self
             /\ last_call' = "get_risk"
             /\ returned' = r.value
    /\ UNCHANGED <<pc, error, optVars, mainVars>>

\* data.get_return(weights)
GetReturn ==
    /\ pc = "pipeline"
    /\ \E w \in WeightGrid(n_assets) :
          LET r == get_return(data, w)
          IN /\ data' = r.self
             /\ last_call' = "get_return"
             /\ returned' = r.value
    /\ UNCHANGED <<pc, error, optVars, mainVars>>

\* analyzer.print_summary()
PrintSummary ==
    /\ pc = "pipeline"
    /\ LET r == print_summary(data, solution)
       IN /\ data' = r.self
          /\ last_call' = "print_summary"
          /\ returned' = r.value
    /\ UNCHANGED <<pc, error, optVars, mainVars>>

\* analyzer.plot_risk_return(), one random portfolio of it
PlotRiskReturn ==
    /\ pc = "pipeline"
    /\ \E random \in RandomWeights(n_assets) :
          LET r == plot_risk_return(data, solution, random)
          IN /\ data' = r.self
             /\ last_call' = "plot_risk_return"
             /\ returned' = r.value
    /\ UNCHANGED <<pc, error, optVars, mainVars>>

NextPipeline ==
    \/ CreateQuboProblem
    \/ CallInterpretResult
    \/ CallCalculateWeights
    \/ GetRisk
    \/ GetReturn
    \/ PrintSummary
    \/ PlotRiskReturn

SpecPipeline == InitPipeline /\ [][NextPipeline]_vars

----------------------------------------------------------------------------
(* Properties. *)

Finished == pc \in {"interpreted", "crashed"}

HasSolution == pc = "interpreted" /\ solution # NoneValue

\* -sum_i r_i x_i + risk_aversion * sum_i sum_j cov[i][j] x_i x_j over ALL
\* ordered pairs (i, j).
FullObjective(d, ra, x) ==
    SumSeq([i \in 1..Len(x) |-> -d.expected_returns[i] * x[i]])
    + ra * SumSeq([i \in 1..Len(x) |->
                SumSeq([j \in 1..Len(x) |-> d.cov_matrix[i][j] * x[i] * x[j]])])

\* C1 (as claimed): the objective of the program create_qubo_problem built
\* evaluates, at every bitstring, to the return term plus risk_aversion
\* times the covariance summed over all ordered pairs, so that an
\* off-diagonal covariance of two selected assets counts twice.
C1_ObjectiveCountsAllOrderedPairs ==
    pc = "solved" =>
        ObjectiveValue(qp, result_x) = FullObjective(data, risk_aversion, result_x)

OutsideCardinality(x) == Count(x) < min_assets \/ Count(x) > max_assets

\* C2: in the unconstrained form, a bitstring that selects fewer than
\* min_assets or more than max_assets assets has a strictly higher minimised
\* value than every bitstring whose selection count is within the range,
\* hence than the best of them.
C2_CardinalityViolationScoresWorse ==
    (pc = "solved" /\ OutsideCardinality(result_x)) =>
        LET violating == MinimizedValue(qubo, result_x)
        IN \A y \in Bitstrings(n_assets) :
              ~OutsideCardinality(y) => violating > MinimizedValue(qubo, y)

\* C2's case: the solver returned more than max_assets assets, and that
\* selection beats every selection within the range on the objective alone.
C2_Witness ==
    /\ pc = "solved"
    /\ Count(result_x) > max_assets
    /\ \A y \in Bitstrings(n_assets) :
          ~OutsideCardinality(y) =>
              ObjectiveValue(qp, result_x) < ObjectiveValue(qp, y)

\* C3 (as claimed): a returned bitstring whose selection count is outside
\* [min_assets, max_assets] ends the run in PenaltyInsufficientError and
\* yields no Solution.
C3_CardinalityViolationIsSurfaced ==
    (Finished /\ OutsideCardinality(result_x)) =>
        (error = "PenaltyInsufficientError" /\ solution = NoneValue)

\* C4 (as claimed): an empty selection ends interpret_result in
\* InfeasibleError, an error and not a normal return value.
C4_EmptySelectionIsAnError ==
    (Finished /\ Selected(result_x, n_assets) = <<>>) =>
        (pc = "crashed" /\ error = "InfeasibleError")

SelectedSingular ==
    /\ Selected(result_x, n_assets) # <<>>
    /\ Det(SubMatrix(data.cov_matrix, Selected(result_x, n_assets))) = 0

\* C5 (as claimed): a selection whose covariance submatrix is not invertible
\* ends calculate_weights in SingularCovarianceError.
C5_SingularSubmatrixIsDetected ==
    (Finished /\ SelectedSingular) => error = "SingularCovarianceError"

\* C6: the weight vector of a returned solution has one component per
\* selected asset, and its components sum to exactly 1.
C6_WeightsSumToOne ==
    HasSolution =>
        /\ Len(solution.weights) = Count(result_x)
        /\ RatSumSeq(solution.weights) = RatInt(1)

\* C6's case: a solution one of whose weights is negative.
C6_Witness ==
    /\ HasSolution
    /\ \E k \in 1..Len(solution.weights) : solution.weights[k][1] < 0

IsDiagonal(M) == \A i, j \in 1..Len(M) : i # j => M[i][j] = 0

\* (1 / v_i) / sum_j (1 / v_j) for the variances v on the diagonal of M.
InverseVarianceWeights(M) ==
    LET recip == [i \in 1..Len(M) |-> Rat(1, M[i][i])]
    IN [i \in 1..Len(M) |-> RatDiv(recip[i], RatSumSeq(recip))]

\* C7: the weights w of a solution over the covariance submatrix S solve
\* S w = c 1 for one number c > 0 with sum(w) = 1, which is
\* w = inv(S) 1 / (1' inv(S) 1); when S is diagonal they are the
\* inverse-variance weights, (9/13, 4/13) for the variances (4, 9); and the
\* same weights come out whatever the expected returns are.
C7_MinimumVarianceWeights ==
    HasSolution =>
        LET sel == solution.selected_indices
            S == SubMatrix(data.cov_matrix, sel)
            w == solution.weights
            Sw == [i \in 1..Len(S) |->
                      RatSumSeq([j \in 1..Len(S) |-> RatMul(RatInt(S[i][j]), w[j])])]
        IN /\ \A i \in 1..Len(S) : Sw[i] = Sw[1] /\ Sw[1][1] > 0
           /\ RatSumSeq(w) = RatInt(1)
           /\ IsDiagonal(S) => w = InverseVarianceWeights(S)
           /\ (IsDiagonal(S) /\ Len(S) = 2 /\ S[1][1] = 4 /\ S[2][2] = 9)
                 => w = <<Rat(9, 13), Rat(4, 13)>>
           /\ calculate_weights(
                 [data EXCEPT !.expected_returns = [i \in 1..n_assets |-> 7 * i]],
                 sel).value = w

\* C7's case: the two assets of variances 4 and 9, uncorrelated, selected.
C7_Witness ==
    /\ HasSolution
    /\ solution.selected_indices = <<0, 1>>
    /\ SubMatrix(data.cov_matrix, <<0, 1>>) = <<(<<4, 0>>), (<<0, 9>>)>>
    /\ solution.weights = <<(<<9, 13>>), (<<4, 13>>)>>

\* C8: in a solution, allocation[j] = weights[j] * budget, selected_assets[j]
\* is the identifier of asset selected_indices[j], the allocations sum to
\* the budget, and other prices give the same solution.
C8_AllocationIsWeightTimesBudget ==
    HasSolution =>
        /\ \A j \in 1..Len(solution.selected_indices) :
              /\ solution.allocation[j] = RatMul(solution.weights[j], RatInt(budget))
              /\ solution.selected_assets[j]
                    = data.assets[solution.selected_indices[j] + 1]
        /\ Len(solution.allocation) = Len(solution.selected_indices)
        /\ Len(solution.selected_assets) = Len(solution.selected_indices)
        /\ RatSumSeq(solution.allocation) = RatInt(budget)
        /\ interpret_result([data EXCEPT !.prices = [i \in 1..n_assets |-> 7 * i]],
                            n_assets, budget, result_x).value = solution

\* C8's case: a solution over three assets with unequal weights.
C8_Witness ==
    /\ HasSolution
    /\ Len(solution.selected_indices) = 3
    /\ solution.weights[1] # solution.weights[2]
    /\ solution.allocation[1] # solution.allocation[2]

\* The assets that got usable market data.
UsableAssets == IF market_data = NoneValue THEN 0 ELSE Len(market_data.items)

\* C9 (as claimed): when the fetcher was asked and fewer than 2 assets got
\* usable data, the run ends in InsufficientDataError and builds no
\* statistics object.
C9_InsufficientDataAborts ==
    (pc = "loaded" /\ ticker_i > 0 /\ UsableAssets < 2) =>
        (error = "InsufficientDataError" /\ data = NoneValue)

\* The dates of the returns of the asset at position k of the market data.
ReturnDates(k) ==
    {pct_change(market_data.items[k].df)[j].date :
        j \in 1..Len(pct_change(market_data.items[k].df))}

\* C10 (as claimed): every row of the aligned table pairs returns of one
\* date, and the rows are exactly the dates every asset has a return for.
C10_ReturnsAlignedByDate ==
    (pc = "crashed" /\ all_returns # NoneValue) =>
        LET rows == all_returns.rows
        IN /\ \A l \in DOMAIN rows :
                 \A k \in 1..Len(rows[l]) : rows[l][k].date = rows[l][1].date
           /\ {rows[l][1].date : l \in DOMAIN rows}
                 = {d \in 1..MaxDate :
                       \A k \in 1..Len(market_data.items) : d \in ReturnDates(k)}

\* C11 (as claimed): once the optimizer has gone past its configuration, an
\* invalid cardinality configuration (min_assets > max_assets, or max_assets
\* above the number of assets) has been rejected with ConfigurationError and
\* no problem has been built or solved.
C11_InvalidCardinalityIsRejected ==
    (pc # "optimizer" /\ (min_assets > max_assets \/ max_assets > n_assets)) =>
        (error = "ConfigurationError" /\ qp = NoneValue /\ result_x = NoneValue)

\* C12 (as claimed): when print_summary meets a portfolio risk of exactly
\* zero, the Sharpe ratio follows an explicit policy: the call fails with
\* DivisionByZeroError or the ratio is +infinity; it is never nan or -inf.
C12_ZeroRiskSharpeFollowsPolicy ==
    (last_call = "print_summary" /\ returned.portfolio_risk.square = <<0, 1>>) =>
        \/ error = "DivisionByZeroError"
        \/ returned.sharpe_ratio = [sign |-> 1, square |-> <<1, 0>>]

\* C13: no call on the loaded objects (create_qubo_problem,
\* interpret_result, calculate_weights, get_risk, get_return, print_summary,
\* plot_risk_return), in any sequence, changes the assets, expected returns,
\* covariance matrix or prices of the data, or the optimizer's budget or
\* risk_aversion.
C13_LoadedObjectsAreNotModified ==
    [][pc = "pipeline" =>
          /\ data'.assets = data.assets
          /\ data'.expected_returns = data.expected_returns
          /\ data'.cov_matrix = data.cov_matrix
          /\ data'.prices = data.prices
          /\ budget' = budget
          /\ risk_aversion' = risk_aversion]_vars

\* A random portfolio of positive risk has been plotted for an object whose
\* first expected return is not zero.
C13_Witness ==
    /\ pc = "pipeline"
    /\ last_call = "plot_risk_return"
    /\ IsFinite(returned.risk.square) /\ returned.risk.square[1] > 0
    /\ data.expected_returns[1] # 0

\* The calls made for one ticker, in order.
CallsFor(t) ==
    LET pos == SelectFrom([k \in 1..Len(calls) |-> IF calls[k][1] = t THEN 1 ELSE 0], 1)
    IN [k \in 1..Len(pos) |-> calls[pos[k] + 1][2]]

\* C14 (as claimed): with source 'auto' the providers are called for each
\* ticker in the order BRAPI, Yahoo Finance, Alpha Vantage, and the fetch
\* completes normally whichever provider has data.
C14_AutoTriesProvidersInOrder ==
    DATA_SOURCE = "auto" =>
        /\ \A k \in 1..Len(TICKERS) :
              CallsFor(TICKERS[k]) \in {<<>>, <<"brapi">>, <<"brapi", "yahoo">>,
                                        <<"brapi", "yahoo", "alpha_vantage">>}
        /\ error # "ValueError"

====
